---------------------------- MODULE Spec2Model ----------------------------
(***************************************************************************)
(* A model of the Parquet fixture tooling of lua-parquet:                  *)
(*   - src/fixtures/analyze_parquet.py : hex_dump, analyze_parquet_file    *)
(*   - src/tools/pyarrow_verify.py     : verify_parquet and its __main__   *)
(* Text is a sequence of code points (a character is its ord), a byte an   *)
(* integer 0..255, a byte string a sequence of bytes (Python index i is     *)
(* TLA+ index i+1).                                                        *)
(***************************************************************************)
EXTENDS Integers, Sequences, FiniteSets, TLC

VARIABLES
    \* ---- hex_dump applied to an input (analyze_parquet.py:12-22)
    h_pc, h_in, h_out,
    \* ---- analyze_parquet_file (analyze_parquet.py:24-103)
    a_pc, content, decoder, footer_window, rg_i, col_j, visited, extracted, printed, a_error,
    \* ---- pyarrow_verify.py: __main__ and verify_parquet
    v_pc, sys_argv, fs, result, stdout, exit_code, steps

h_vars == <<h_pc, h_in, h_out>>
a_vars == <<a_pc, content, decoder, footer_window, rg_i, col_j, visited, extracted, printed, a_error>>
v_vars == <<v_pc, sys_argv, fs, result, stdout, exit_code, steps>>
vars == <<h_vars, a_vars, v_vars>>

-----------------------------------------------------------------------------
(* Bounds of the model *)

\* longest byte string handed to hex_dump
MaxLen == 3
\* widest row handed to hex_dump besides the default of 16
MaxWidth == 3
\* most bytes between the opening magic and the footer length field
MaxBody == 4
\* most row groups and most columns the decoded metadata declares
MaxRowGroups == 2
MaxColumns == 2
\* most rows of a table whose expected data is varied freely
MaxRows == 2
\* most rows of a table compared only with itself in order and reversed
MaxTallRows == 6

-----------------------------------------------------------------------------
(* Python built-ins used by the code *)

\* code points of the characters the dump is built from
OrdSpace == 32
OrdDot == 46
OrdZero == 48
OrdColon == 58
OrdLowerA == 97
OrdBar == 124
OrdNewline == 10

Min(a, b) == IF a < b THEN a ELSE b
Max(a, b) == IF a > b THEN a ELSE b

\* a slice bound as Python clamps it: negative counts from the end
SliceIndex(idx, n) == IF idx < 0 THEN Max(idx + n, 0) ELSE Min(idx, n)

\* s[a:b]
PySlice(s, a, b) ==
    LET lo == SliceIndex(a, Len(s))
        hi == SliceIndex(b, Len(s))
    IN  IF lo >= hi THEN <<>> ELSE SubSeq(s, lo + 1, hi)

\* list(range(start, stop, step)) for step > 0
RECURSIVE Range(_, _, _)
Range(start, stop, step) ==
    IF start >= stop THEN <<>>
    ELSE <<start>> \o Range(start + step, stop, step)

\* sep.join(parts)
RECURSIVE Join(_, _)
Join(parts, sep) ==
    IF parts = <<>> THEN <<>>
    ELSE IF Len(parts) = 1 THEN parts[1]
    ELSE parts[1] \o sep \o Join(Tail(parts), sep)

\* n copies of the character c
Repeat(c, n) == [k \in 1..n |-> c]

\* s.ljust(w)
LJust(s, w) == IF Len(s) >= w THEN s ELSE s \o Repeat(OrdSpace, w - Len(s))

\* the hexadecimal digit d (0..15) as a character: "0123456789abcdef"[d]
HexDigit(d) == IF d < 10 THEN OrdZero + d ELSE OrdLowerA + (d - 10)

\* format(n, "x") for n >= 0
RECURSIVE HexStr(_)
HexStr(n) ==
    IF n < 16 THEN <<HexDigit(n)>>
    ELSE HexStr(n \div 16) \o <<HexDigit(n % 16)>>

\* f"{n:02x}" and f"{n:08x}": zero padded on the left to at least w digits
FormatHex(n, w) ==
    LET d == HexStr(n)
    IN  IF Len(d) >= w THEN d ELSE Repeat(OrdZero, w - Len(d)) \o d

\* chr(b): the character whose code point is b
Chr(b) == b

\* int.from_bytes(bs, byteorder='little'); 0 for the empty byte string
RECURSIVE IntFromBytesLE(_)
IntFromBytesLE(bs) ==
    IF bs = <<>> THEN 0 ELSE bs[1] + 256 * IntFromBytesLE(Tail(bs))

-----------------------------------------------------------------------------
(* hex_dump, analyze_parquet.py:12-22 *)

\* a variant that treats 126 ('~') as not printable
AsciiCharExclusive(b) == IF 32 <= b /\ b < 126 THEN Chr(b) ELSE OrdDot

\* chr(b) if 32 <= b <= 126 else "."
AsciiChar(b) == IF 32 <= b /\ b <= 126 THEN Chr(b) ELSE OrdDot

\* one row of the dump, for the bytes starting at index i
HexDumpLine(data, offset, width, i) ==
    LET line_data  == PySlice(data, i, i + width)
        hex_part   == Join([k \in 1..Len(line_data) |-> FormatHex(line_data[k], 2)], <<OrdSpace>>)
        ascii_part == [k \in 1..Len(line_data) |-> AsciiChar(line_data[k])]
    IN  FormatHex(offset + i, 8) \o <<OrdColon, OrdSpace>> \o LJust(hex_part, width * 3 - 1)
            \o <<OrdSpace, OrdSpace, OrdBar>> \o ascii_part \o <<OrdBar>>

\* the rows, before they are joined
HexDumpRows(data, offset, width) ==
    LET starts == Range(0, Len(data), width)
    IN  [k \in 1..Len(starts) |-> HexDumpLine(data, offset, width, starts[k])]

hex_dump(data, offset, width) == Join(HexDumpRows(data, offset, width), <<OrdNewline>>)

-----------------------------------------------------------------------------
(* The tools are separate programs: while one runs, the others are idle *)

HexIdle == h_pc = "idle" /\ h_in = <<>> /\ h_out = <<>>

AnalyzeIdle ==
    /\ a_pc = "idle" /\ content = <<>> /\ decoder = <<>> /\ footer_window = <<>>
    /\ rg_i = 0 /\ col_j = 0 /\ visited = <<>> /\ extracted = <<>>
    /\ printed = <<>> /\ a_error = FALSE

VerifyIdle ==
    /\ v_pc = "idle" /\ sys_argv = <<>> /\ fs = <<>>
    /\ result = <<>> /\ stdout = <<>> /\ exit_code = -1 /\ steps = <<>>

-----------------------------------------------------------------------------
(* hex_dump called on an input *)

\* byte values on both sides of each boundary the code tests
HexBytes == {0, 31, 32, 126, 127, 255}

\* all byte strings over HexBytes of length at most n
ByteStrings(n) == UNION {[1..m -> HexBytes] : m \in 0..n}

\* the callers pass the default width 16 (analyze_parquet.py:51,54,57,100)
HexWidths == (1..MaxWidth) \cup {16}

HexOffsets == {0, 7, 300}

HexInit ==
    /\ h_pc = "call"
    /\ h_in \in [data : ByteStrings(MaxLen), offset : HexOffsets, width : HexWidths]
    /\ h_out = <<>>
    /\ AnalyzeIdle /\ VerifyIdle

\* range(0, len(data), 0) raises ValueError; otherwise the dump is returned
HexCall ==
    /\ h_pc = "call"
    /\ IF h_in.width = 0
       THEN h_pc' = "raised" /\ h_out' = h_out
       ELSE h_pc' = "returned" /\ h_out' = hex_dump(h_in.data, h_in.offset, h_in.width)
    /\ UNCHANGED <<h_in, a_vars, v_vars>>

HexNext == HexCall

SpecHexDump == HexInit /\ [][HexNext]_vars

-----------------------------------------------------------------------------
(* C10 *)

\* text.split("\n"), with no row for the empty text
RECURSIVE SplitLines(_)
SplitLines(text) ==
    IF text = <<>> THEN <<>>
    ELSE LET nl == {k \in 1..Len(text) : text[k] = OrdNewline}
         IN  IF nl = {} THEN <<text>>
             ELSE LET k == CHOOSE x \in nl : \A y \in nl : x <= y
                  IN  <<SubSeq(text, 1, k - 1)>>
                        \o (IF k = Len(text) THEN <<<<>>>>
                            ELSE SplitLines(SubSeq(text, k + 1, Len(text))))

\* the value of a hexadecimal digit character, -1 if it is none
HexValue(c) ==
    IF c >= 48 /\ c <= 57 THEN c - 48
    ELSE IF c >= 97 /\ c <= 102 THEN c - 87
    ELSE -1

\* the number a string of hexadecimal digits denotes, -1 if it is none
RECURSIVE ParseHex(_)
ParseHex(s) ==
    IF s = <<>> THEN 0
    ELSE LET hi == ParseHex(SubSeq(s, 1, Len(s) - 1))
             lo == HexValue(s[Len(s)])
         IN  IF hi < 0 \/ lo < 0 THEN -1 ELSE 16 * hi + lo

\* row k (from 0) of the dump is the one the specification describes
RowAsSpecified(row, k, data, offset, width) ==
    LET n      == Len(data)
        first  == k * width
        cnt    == IF first + width <= n THEN width ELSE n - first
        hexAt  == 10
        pipeAt == hexAt + (width * 3 - 1) + 3
    IN  /\ Len(row) = pipeAt + cnt + 1
        /\ ParseHex(SubSeq(row, 1, 8)) = offset + first
        /\ row[9] = 58 /\ row[10] = 32
        /\ \A m \in 1..cnt :
              /\ ParseHex(SubSeq(row, hexAt + 3 * (m - 1) + 1, hexAt + 3 * (m - 1) + 2))
                    = data[first + m]
              /\ row[pipeAt + m] =
                    (IF data[first + m] >= 32 /\ data[first + m] <= 126
                     THEN data[first + m] ELSE 46)
        /\ \A p \in (hexAt + 1)..(pipeAt - 1) :
              (\A m \in 1..cnt : p \notin {hexAt + 3 * (m - 1) + 1, hexAt + 3 * (m - 1) + 2})
                  => row[p] = 32
        /\ row[pipeAt] = 124 /\ row[Len(row)] = 124

\* C10: hex_dump never fails and returns ceil(len(data)/width) rows; row k carries
\* the offset offset + k*width, the two-digit hex of its bytes in order and one
\* ASCII character per byte, the byte's own character in [32,126] and "." otherwise
C10_HexDumpRows ==
    /\ h_pc # "raised"
    /\ h_pc = "returned" =>
          LET rows == SplitLines(h_out)
          IN  /\ Len(rows) = (Len(h_in.data) + h_in.width - 1) \div h_in.width
              /\ \A k \in 0..(Len(rows) - 1) :
                    RowAsSpecified(rows[k + 1], k, h_in.data, h_in.offset, h_in.width)

\* a dump of two rows, the last one partial, with '~' and an unprintable byte
C10_Witness ==
    /\ h_pc = "returned"
    /\ Len(h_in.data) = 3 /\ h_in.width = 2 /\ h_in.offset = 300
    /\ h_in.data[1] = 126 /\ h_in.data[3] = 127
    /\ Len(SplitLines(h_out)) = 2

-----------------------------------------------------------------------------
(* analyze_parquet_file, analyze_parquet.py:24-103 *)

\* b'PAR1'
PAR1 == <<80, 65, 82, 49>>

\* the last n bytes of f
Suffix(f, n) == SubSeq(f, Len(f) - n + 1, Len(f))

\* the 4-byte length fields tried: small lengths, 256 and more, and 2^31 - 1
\* (the largest length that fits TLC's 32-bit integers)
LengthFields ==
    {<<l0, l1, 0, 0>> : l0 \in 0..(MaxBody + 2), l1 \in {0, 1}} \cup {<<255, 255, 255, 127>>}

\* files of at least 8 bytes: magic, body, length field, magic, each magic
\* possibly damaged in one byte
FullFiles ==
    {head \o [k \in 1..b |-> k] \o len \o trail :
        head \in {PAR1, <<88, 65, 82, 49>>}, trail \in {PAR1, <<80, 65, 82, 88>>},
        b \in 0..MaxBody, len \in LengthFields}

\* files of fewer than 8 bytes
ShortFiles == {Suffix(PAR1 \o len \o PAR1, n) : len \in LengthFields, n \in 0..7}

\* pq.read_metadata (pyarrow) rejects a file shorter than its 8-byte trailer, one
\* whose last 4 bytes are not the magic and one whose declared footer length
\* exceeds the bytes before the trailer; it raises in each case
ReaderMayAccept(c) ==
    /\ Len(c) >= 8
    /\ Suffix(c, 4) = PAR1
    /\ IntFromBytesLE(SubSeq(c, Len(c) - 7, Len(c) - 4)) <= Len(c) - 8

\* what pq.read_metadata returns for the file: it raises (ok = FALSE), or gives the
\* row group and column counts and, per column chunk, file_offset and
\* total_compressed_size; the chunks are laid out one after the other from base
DecodeFailure == [ok |-> FALSE, num_row_groups |-> 0, num_columns |-> 0, base |-> 0, size |-> 0]

Decodings ==
    [ok : {TRUE}, num_row_groups : 0..MaxRowGroups, num_columns : 1..MaxColumns,
     base : {4, 6}, size : {0, 2, 9}]

\* row_group(i).column(j).file_offset and .total_compressed_size
file_offset(md, i, j) == md.base + (i * md.num_columns + j) * md.size
total_compressed_size(md, i, j) == md.size

AnalyzeInit ==
    /\ a_pc = "read"
    /\ content \in FullFiles \cup ShortFiles
    /\ decoder \in {DecodeFailure} \cup (IF ReaderMayAccept(content) THEN Decodings ELSE {})
    /\ footer_window = [metadata_size |-> 0, offset |-> 0, metadata |-> <<>>]
    /\ rg_i = 0 /\ col_j = 0
    /\ visited = <<>> /\ extracted = <<>> /\ printed = <<>>
    /\ a_error = FALSE
    /\ HexIdle /\ VerifyIdle

\* one print() call: what is printed, and the text or numbers printed
Line(what, data) == [what |-> what, data |-> data]

\* lines 30-34: the whole file is read into content and its size printed
AnalyzeRead ==
    /\ a_pc = "read"
    /\ printed' = printed \o <<Line("File size", <<Len(content)>>)>>
    /\ a_pc' = "magic"
    /\ UNCHANGED <<content, decoder, footer_window, rg_i, col_j, visited, extracted, a_error,
                   h_vars, v_vars>>

\* lines 37-40: a missing magic is only warned about
AnalyzeMagic ==
    /\ a_pc = "magic"
    /\ printed' = printed \o
          <<IF PySlice(content, 0, 4) # PAR1 \/ PySlice(content, -4, Len(content)) # PAR1
            THEN Line("WARNING: no PAR1 magic", <<>>)
            ELSE Line("Magic bytes found", <<>>)>>
    /\ a_pc' = "footer"
    /\ UNCHANGED <<content, decoder, footer_window, rg_i, col_j, visited, extracted, a_error,
                   h_vars, v_vars>>

\* lines 43-48: the footer length is read and the footer bytes are sliced
AnalyzeFooter ==
    /\ a_pc = "footer"
    /\ LET footer_metadata_size == IntFromBytesLE(PySlice(content, -8, -4))
           footer_offset        == Len(content) - footer_metadata_size - 8
       IN  /\ footer_window' =
                  [metadata_size |-> footer_metadata_size,
                   offset        |-> footer_offset,
                   metadata      |-> PySlice(content, footer_offset,
                                             footer_offset + footer_metadata_size)]
           /\ printed' = printed \o <<Line("Footer metadata size", <<footer_metadata_size>>)>>
    /\ a_pc' = "dump"
    /\ UNCHANGED <<content, decoder, rg_i, col_j, visited, extracted, a_error,
                   h_vars, v_vars>>

\* lines 50-57: the first 64 bytes, the footer's first 64 and the last 64 are dumped
AnalyzeDump ==
    /\ a_pc = "dump"
    /\ printed' = printed \o
          <<Line("First 64 bytes", hex_dump(PySlice(content, 0, 64), 0, 16)),
            Line("Footer metadata", hex_dump(PySlice(footer_window.metadata, 0, 64), 0, 16)),
            Line("Last 64 bytes", hex_dump(PySlice(content, -64, Len(content)), 0, 16))>>
    /\ a_pc' = "decode"
    /\ UNCHANGED <<content, decoder, footer_window, rg_i, col_j, visited, extracted, a_error,
                   h_vars, v_vars>>

\* lines 60-66 and the handler of 102-103: pq.read_metadata returns or raises
AnalyzeDecode ==
    /\ a_pc = "decode"
    /\ IF decoder.ok
       THEN /\ printed' = printed \o
                  <<Line("Num columns", <<decoder.num_columns>>),
                    Line("Num row groups", <<decoder.num_row_groups>>)>>
            /\ a_pc' = "schema"
            /\ a_error' = a_error
       ELSE /\ printed' = printed \o <<Line("Error analyzing file", <<>>)>>
            /\ a_pc' = "error"
            /\ a_error' = TRUE
    /\ UNCHANGED <<content, decoder, footer_window, rg_i, col_j, visited, extracted,
                   h_vars, v_vars>>

\* lines 69-77: one line per schema column
AnalyzeSchema ==
    /\ a_pc = "schema"
    /\ printed' = printed \o
          [k \in 1..Len(Range(0, decoder.num_columns, 1)) |-> Line("Column", <<k - 1>>)]
    /\ rg_i' = 0
    /\ a_pc' = "rowgroup"
    /\ UNCHANGED <<content, decoder, footer_window, col_j, visited, extracted, a_error,
                   h_vars, v_vars>>

\* lines 78-85: the next row group of range(num_row_groups), or the end of the walk
AnalyzeRowGroup ==
    /\ a_pc = "rowgroup"
    /\ IF rg_i < decoder.num_row_groups
       THEN /\ printed' = printed \o <<Line("Row Group", <<rg_i>>)>>
            /\ col_j' = 0
            /\ a_pc' = "column"
       ELSE /\ a_pc' = "done"
            /\ UNCHANGED <<printed, col_j>>
    /\ UNCHANGED <<content, decoder, footer_window, rg_i, visited, extracted, a_error,
                   h_vars, v_vars>>

\* a variant that extracts the chunk bytes of every row group
ExtractsChunkAlways(i) == TRUE

\* line 93: chunk bytes are extracted for the first row group
ExtractsChunk(i) == i = 0

\* lines 86-100: the next column chunk of range(num_columns), or the next row group
AnalyzeColumn ==
    /\ a_pc = "column"
    /\ IF col_j < decoder.num_columns
       THEN LET chunk_offset == file_offset(decoder, rg_i, col_j)
                chunk_size   == total_compressed_size(decoder, rg_i, col_j)
                chunk_data   == PySlice(content, chunk_offset, chunk_offset + chunk_size)
            IN  /\ visited' = Append(visited, <<rg_i, col_j>>)
                /\ IF ExtractsChunk(rg_i)
                   THEN /\ extracted' = Append(extracted,
                               [rg |-> rg_i, col |-> col_j, file_offset |-> chunk_offset,
                                total_compressed_size |-> chunk_size, data |-> chunk_data])
                        /\ printed' = printed \o
                              <<Line("Column", <<col_j, chunk_offset, chunk_size>>),
                                Line("Column Chunk Data",
                                     hex_dump(PySlice(chunk_data, 0, 32), chunk_offset, 16))>>
                   ELSE /\ extracted' = extracted
                        /\ printed' = printed \o
                              <<Line("Column", <<col_j, chunk_offset, chunk_size>>)>>
                /\ col_j' = col_j + 1
                /\ UNCHANGED <<a_pc, rg_i>>
       ELSE /\ rg_i' = rg_i + 1
            /\ a_pc' = "rowgroup"
            /\ UNCHANGED <<col_j, visited, extracted, printed>>
    /\ UNCHANGED <<content, decoder, footer_window, a_error, h_vars, v_vars>>

AnalyzeNext ==
    \/ AnalyzeRead
    \/ AnalyzeMagic
    \/ AnalyzeFooter
    \/ AnalyzeDump
    \/ AnalyzeDecode
    \/ AnalyzeSchema
    \/ AnalyzeRowGroup
    \/ AnalyzeColumn

SpecAnalyze == AnalyzeInit /\ [][AnalyzeNext]_vars

-----------------------------------------------------------------------------
(* C3, C8, C9 *)

\* the footer bytes have been sliced
FooterSliced == a_pc \in {"dump", "decode", "schema", "rowgroup", "column", "done", "error"}

\* C3: a footer window is used (its bytes sliced, the decode attempted) only when the
\* file has at least 8 bytes and 0 <= start <= end <= N-8 for start = N-8-length,
\* end = N-8; otherwise locating the footer fails before the slice
C3_FooterWindowInBounds ==
    FooterSliced =>
        /\ Len(content) >= 8
        /\ 0 <= footer_window.offset
        /\ footer_window.offset <= footer_window.offset + footer_window.metadata_size
        /\ footer_window.offset + footer_window.metadata_size <= Len(content) - 8

\* C8: every column chunk whose bytes are extracted lies within the file:
\* file_offset + total_compressed_size <= N
C8_ChunkWithinFile ==
    \A k \in 1..Len(extracted) :
        extracted[k].file_offset + extracted[k].total_compressed_size <= Len(content)

\* the (row group, column) pairs in file order, row groups first
PairsInOrder(num_row_groups, num_columns) ==
    [p \in 1..(num_row_groups * num_columns) |->
        <<(p - 1) \div num_columns, (p - 1) % num_columns>>]

IsFirstRowGroup(pair) == pair[1] = 0

\* C9: the walk visits the row groups in ascending order and, in each, the columns
\* in ascending order, every pair once; chunk bytes are extracted for row group 0
\* only; with no row group nothing is visited and no error is raised
C9_WalkOrder ==
    LET expected == IF decoder.ok
                    THEN PairsInOrder(decoder.num_row_groups, decoder.num_columns)
                    ELSE <<>>
    IN  /\ Len(visited) <= Len(expected)
        /\ \A k \in 1..Len(visited) : visited[k] = expected[k]
        /\ a_pc = "done" => visited = expected /\ ~a_error
        /\ [k \in 1..Len(extracted) |-> <<extracted[k].rg, extracted[k].col>>]
              = SelectSeq(visited, IsFirstRowGroup)

\* a finished walk over two row groups of two columns
C9_Witness ==
    /\ a_pc = "done"
    /\ decoder.num_row_groups = 2 /\ decoder.num_columns = 2
    /\ Len(visited) = 4 /\ Len(extracted) = 2

-----------------------------------------------------------------------------
(* Tables: pandas DataFrames as pyarrow_verify.py uses them *)

\* a cell is an int or a str; the strings are ordered as their numbers are
IntCell(n) == [k |-> "int", v |-> n]
StrCell(n) == [k |-> "str", v |-> n]
AllCells == {IntCell(1), IntCell(2), StrCell(1), StrCell(2)}

Reverse(s) == [k \in 1..Len(s) |-> s[Len(s) + 1 - k]]
Elements(s) == {s[k] : k \in 1..Len(s)}

\* the dtype pandas infers for a column of cells
InferDtype(cells) == IF \A c \in cells : c.k = "int" THEN "int64" ELSE "object"

\* a DataFrame: ordered column labels, a dtype per column, the rows in index order
Frame(columns, dtype, rows) == [columns |-> columns, dtype |-> dtype, rows |-> rows]

\* the columns of the fixtures (generate_fixtures.py): "id" INT32, "name" string
FixtureDtype(c) == IF c = "id" THEN "int32" ELSE "object"
FixtureCells(c) == IF c = "id" THEN {IntCell(1), IntCell(2)} ELSE {StrCell(1), StrCell(2)}
FixtureSchemas == {<<"id">>, <<"name">>, <<"id", "name">>}

RowsOver(columns) == {r \in [Elements(columns) -> AllCells] :
                          \A c \in Elements(columns) : r[c] \in FixtureCells(c)}

\* table.to_pandas() of the tables a file may decode to
DfTables ==
    UNION {{Frame(cols, [c \in Elements(cols) |-> FixtureDtype(c)], rows) :
               rows \in UNION {[1..n -> RowsOver(cols)] : n \in 0..MaxRows}} :
           cols \in FixtureSchemas}

\* single-column tables id = 1, 2, 1, 2, ... longer than MaxRows
TallTables ==
    {Frame(<<"id">>, [c \in {"id"} |-> "int32"],
           [k \in 1..n |-> [c \in {"id"} |-> IntCell(2 - (k % 2))]]) :
        n \in (MaxRows + 1)..MaxTallRows}

\* the expected-data argument: absent, the empty string, text that is not JSON, or
\* a JSON array of records with the given keys (an empty array has no keys)
NoPayload        == [kind |-> "absent", columns |-> <<>>, rows |-> <<>>]
EmptyPayload     == [kind |-> "empty", columns |-> <<>>, rows |-> <<>>]
MalformedPayload == [kind |-> "malformed", columns |-> <<>>, rows |-> <<>>]
Records(columns, rows) ==
    [kind |-> "records", columns |-> IF rows = <<>> THEN <<>> ELSE columns, rows |-> rows]

\* rows with at most one cell replaced by another value
CellEdits(columns, rows) ==
    {rows} \cup
    {[rows EXCEPT ![k] = [@ EXCEPT ![c] = x]] :
        k \in 1..Len(rows), c \in Elements(columns), x \in AllCells}

\* every order of the rows
RowOrders(rows) ==
    {[k \in 1..Len(rows) |-> rows[p[k]]] : p \in Permutations(1..Len(rows))}

\* a row shorter or longer
RowCounts(rows) ==
    IF rows = <<>> THEN {} ELSE {Tail(rows), Append(rows, rows[1])}

\* the same records under other keys: key order reversed, a key added, a key dropped
KeyLayouts(columns, rows) ==
    {Records(columns, rows), Records(Reverse(columns), rows),
     Records(Append(columns, "extra"),
             [k \in 1..Len(rows) |->
                 [c \in Elements(columns) \cup {"extra"} |->
                     IF c = "extra" THEN IntCell(1) ELSE rows[k][c]]]),
     Records(Tail(columns),
             [k \in 1..Len(rows) |-> [c \in Elements(Tail(columns)) |-> rows[k][c]]])}

\* the expected data tried against the table df
PayloadsFor(df) ==
    {NoPayload, EmptyPayload, MalformedPayload} \cup
    (IF Len(df.rows) <= MaxRows
     THEN UNION {KeyLayouts(df.columns, rows) :
                    rows \in RowCounts(df.rows) \cup
                             UNION {RowOrders(e) : e \in CellEdits(df.columns, df.rows)}}
     ELSE {Records(df.columns, df.rows), Records(df.columns, Reverse(df.rows))})

\* pd.DataFrame(json.loads(text)) for an array of records: the keys in order, the
\* dtypes inferred; the empty array gives a frame without columns
DataFrame(payload) ==
    IF payload.rows = <<>> THEN Frame(<<>>, <<>>, <<>>)
    ELSE Frame(payload.columns,
               [c \in Elements(payload.columns) |->
                   InferDtype({payload.rows[k][c] : k \in 1..Len(payload.rows)})],
               payload.rows)

\* the key a row is sorted by
KeyOf(row, by) == row[by].v

\* row r inserted into the sorted rows s behind every row whose key is not larger
InsertSorted(s, r, by) ==
    LET n == Cardinality({k \in 1..Len(s) : KeyOf(s[k], by) <= KeyOf(r, by)})
    IN  SubSeq(s, 1, n) \o <<r>> \o SubSeq(s, n + 1, Len(s))

RECURSIVE StableSort(_, _)
StableSort(rows, by) ==
    IF rows = <<>> THEN <<>>
    ELSE InsertSorted(StableSort(SubSeq(rows, 1, Len(rows) - 1), by), rows[Len(rows)], by)

\* sort_values uses the default kind, quicksort, which promises no order among rows
\* of equal key: a build leaves them in their order or turns them around
TieOrders == {"stable", "reversed"}

\* frame.sort_values(by=by).reset_index(drop=True)
sort_values(frame, by, tie) ==
    [frame EXCEPT !.rows = StableSort(IF tie = "stable" THEN @ ELSE Reverse(@), by)]

\* sort_values raises TypeError on a column that mixes int and str
SortRaises(frame, by) ==
    \E a, b \in 1..Len(frame.rows) : frame.rows[a][by].k # frame.rows[b][by].k

\* a.equals(b): same labels, same dtypes, same cells
equals(a, b) == a.columns = b.columns /\ a.dtype = b.dtype /\ a.rows = b.rows

IsIntDtype(d) == d = "int64" \/ d = "int32"

\* astype(int) raises ValueError on a str that is no number
AstypeRaises(df, frame) ==
    \E c \in Elements(df.columns) :
        IsIntDtype(df.dtype[c]) /\ \E k \in 1..Len(frame.rows) : frame.rows[k][c].k # "int"

\* lines 85-87: the expected columns take the dtype of the file's integer columns
astype(df, frame) ==
    [frame EXCEPT !.dtype = [c \in DOMAIN @ |->
                                IF IsIntDtype(df.dtype[c]) THEN df.dtype[c] ELSE @[c]]]

\* frame.head(5).to_dict(orient="records")
NoneList == [is_none |-> TRUE, rows |-> <<>>]
List(rows) == [is_none |-> FALSE, rows |-> rows]
head(frame) == List(PySlice(frame.rows, 0, 5))

-----------------------------------------------------------------------------
(* pyarrow_verify.py *)

\* lines 19-26
InitialResult ==
    [success |-> FALSE, error |-> "None", row_count |-> 0, columns |-> <<>>,
     data_matches |-> "None", data_sample |-> NoneList,
     actual_data |-> NoneList, expected_data |-> NoneList]

\* a variant that lets a 4-byte file through
TooSmallForMagic(file_size) == file_size < 4

\* line 40
TooSmall(file_size) == file_size < 8

\* a variant that looks at the header only
MissingHeaderMagic(header, trailer) == header # PAR1

\* line 52
MissingMagic(header, trailer) == header # PAR1 \/ trailer # PAR1

\* a variant that compares the column lists in order
ColumnListMismatch(df, expected_df) == df.columns # expected_df.columns

\* line 76
ColumnMismatch(df, expected_df) == Elements(df.columns) # Elements(expected_df.columns)

\* a variant that treats a comparison failure as the outer handler treats a read
\* failure
ComparisonFailedAsRead(res) ==
    [res EXCEPT !.success = FALSE, !.error = "Error comparing data"]

\* lines 101-103: the handler of the comparison's try
ComparisonFailed(res) ==
    [res EXCEPT !.data_matches = "False", !.error = "Error comparing data"]

\* lines 70-103, for a truthy expected_data: the result, the steps run, and whether
\* line 79 returned the result
CompareData(res, df, payload, tie) ==
    LET expected_df == DataFrame(payload)
        reordered   == [expected_df EXCEPT !.columns = df.columns]
        coerced     == astype(df, reordered)
        by          == df.columns[1]
        sorted_df       == sort_values(df, by, tie)
        sorted_expected == sort_values(coerced, by, tie)
    IN  IF payload.kind = "malformed"
        THEN [result |-> ComparisonFailed(res), returned |-> FALSE,
              steps |-> <<"json.loads", "except">>]
        ELSE IF ColumnMismatch(df, expected_df)
        THEN [result |-> [res EXCEPT !.data_matches = "False", !.error = "Column mismatch"],
              returned |-> TRUE,
              steps |-> <<"json.loads", "DataFrame", "columns">>]
        ELSE IF AstypeRaises(df, reordered)
        THEN [result |-> ComparisonFailed(res), returned |-> FALSE,
              steps |-> <<"json.loads", "DataFrame", "columns", "reorder", "astype",
                          "except">>]
        ELSE IF SortRaises(coerced, by)
        THEN [result |-> ComparisonFailed(res), returned |-> FALSE,
              steps |-> <<"json.loads", "DataFrame", "columns", "reorder", "astype",
                          "sort_values", "except">>]
        ELSE [result |-> IF equals(sorted_df, sorted_expected)
                         THEN [res EXCEPT !.data_matches = "True"]
                         ELSE [res EXCEPT !.data_matches = "False",
                                          !.actual_data = head(sorted_df),
                                          !.expected_data = head(sorted_expected)],
              returned |-> FALSE,
              steps |-> <<"json.loads", "DataFrame", "columns", "reorder", "astype",
                          "sort_values", "equals">>]

\* a well-formed container with b bytes between the magics
Conforming(b) == PAR1 \o [k \in 1..b |-> k] \o PAR1

\* f with one byte of its first or last 4 replaced
Damaged(f) == {[f EXCEPT ![p] = 88] : p \in (1..4) \cup ((Len(f) - 3)..Len(f))}

\* files of fewer than 8 bytes, the bare 4-byte magic among them
TruncatedFiles ==
    UNION {{SubSeq(PAR1 \o PAR1, 1, n), Suffix(PAR1 \o PAR1, n)} : n \in 0..7}

\* pq.read_table raises, or returns the table
ReadFailure == [ok |-> FALSE, df |-> Frame(<<>>, <<>>, <<>>)]
ReadOf(df) == [ok |-> TRUE, df |-> df]

SomePayloads ==
    {NoPayload, Records(<<"id">>, <<[c \in {"id"} |-> IntCell(1)]>>)}

VerifyInit ==
    /\ v_pc = "main"
    /\ \/ /\ sys_argv = [has_path |-> FALSE, expected_data |-> NoPayload]
          /\ fs = [exists |-> FALSE, content |-> <<>>, table |-> ReadFailure]
       \/ /\ sys_argv \in [has_path : {TRUE}, expected_data : SomePayloads]
          /\ fs = [exists |-> FALSE, content |-> <<>>, table |-> ReadFailure]
       \/ /\ sys_argv \in [has_path : {TRUE}, expected_data : SomePayloads]
          /\ \E c \in TruncatedFiles \cup UNION {{Conforming(b)} \cup Damaged(Conforming(b)) :
                                                    b \in 0..MaxBody} :
                fs = [exists |-> TRUE, content |-> c, table |-> ReadFailure]
       \/ \E df \in DfTables \cup TallTables :
             /\ fs = [exists |-> TRUE, content |-> Conforming(MaxBody), table |-> ReadOf(df)]
             /\ sys_argv \in [has_path : {TRUE}, expected_data : PayloadsFor(df)]
    /\ result = InitialResult
    /\ stdout = <<>>
    /\ exit_code = -1
    /\ steps = <<>>
    /\ HexIdle /\ AnalyzeIdle

\* sys.exit(1) after print(json.dumps(result)): lines 34-35, 43-44, 55-56
ExitWithError(message) ==
    /\ result' = [result EXCEPT !.error = message]
    /\ stdout' = Append(stdout, result')
    /\ exit_code' = 1
    /\ v_pc' = "exit"

\* lines 116-127: without a path argument the tool prints an error and exits 1
VerifyMain ==
    /\ v_pc = "main"
    /\ IF ~sys_argv.has_path
       THEN /\ stdout' = Append(stdout, [success |-> FALSE, error |-> "No file path provided"])
            /\ exit_code' = 1
            /\ v_pc' = "exit"
       ELSE /\ v_pc' = "exists"
            /\ UNCHANGED <<stdout, exit_code>>
    /\ UNCHANGED <<sys_argv, fs, result, steps, h_vars, a_vars>>

\* lines 31-35
VerifyExists ==
    /\ v_pc = "exists"
    /\ steps' = Append(steps, "exists")
    /\ IF ~fs.exists
       THEN ExitWithError("File does not exist")
       ELSE v_pc' = "size" /\ UNCHANGED <<result, stdout, exit_code>>
    /\ UNCHANGED <<sys_argv, fs, h_vars, a_vars>>

\* lines 37-44
VerifySize ==
    /\ v_pc = "size"
    /\ steps' = Append(steps, "getsize")
    /\ IF TooSmall(Len(fs.content))
       THEN ExitWithError("File is too small")
       ELSE v_pc' = "magic" /\ UNCHANGED <<result, stdout, exit_code>>
    /\ UNCHANGED <<sys_argv, fs, h_vars, a_vars>>

\* lines 47-56: the first 4 bytes and the 4 bytes from max(0, file_size - 4)
VerifyMagic ==
    /\ v_pc = "magic"
    /\ steps' = Append(steps, "magic")
    /\ LET file_size == Len(fs.content)
           header    == PySlice(fs.content, 0, 4)
           trailer   == PySlice(fs.content, Max(0, file_size - 4), Max(0, file_size - 4) + 4)
       IN  IF MissingMagic(header, trailer)
           THEN ExitWithError("Not a Parquet file. Missing PAR1 magic bytes.")
           ELSE v_pc' = "read_table" /\ UNCHANGED <<result, stdout, exit_code>>
    /\ UNCHANGED <<sys_argv, fs, h_vars, a_vars>>

\* if expected_data: neither None nor the empty string
Truthy(payload) == payload.kind \notin {"absent", "empty"}

\* lines 60-67, and the handler of 108-110 when pq.read_table raises
VerifyReadTable ==
    /\ v_pc = "read_table"
    /\ steps' = Append(steps, "read_table")
    /\ IF fs.table.ok
       THEN /\ result' = [result EXCEPT !.success = TRUE,
                                        !.row_count = Len(fs.table.df.rows),
                                        !.columns = fs.table.df.columns]
            /\ v_pc' = IF Truthy(sys_argv.expected_data) THEN "compare" ELSE "sample"
       ELSE /\ result' = [result EXCEPT !.success = FALSE, !.error = "ArrowInvalid"]
            /\ v_pc' = "print"
    /\ UNCHANGED <<sys_argv, fs, stdout, exit_code, h_vars, a_vars>>

\* lines 70-103
VerifyCompare ==
    /\ v_pc = "compare"
    /\ \E tie \in TieOrders :
          LET c == CompareData(result, fs.table.df, sys_argv.expected_data, tie)
          IN  /\ result' = c.result
              /\ steps' = steps \o c.steps
              /\ v_pc' = IF c.returned THEN "print" ELSE "sample"
    /\ UNCHANGED <<sys_argv, fs, stdout, exit_code, h_vars, a_vars>>

\* line 106
VerifySample ==
    /\ v_pc = "sample"
    /\ result' = [result EXCEPT !.data_sample = head(fs.table.df)]
    /\ steps' = Append(steps, "data_sample")
    /\ v_pc' = "print"
    /\ UNCHANGED <<sys_argv, fs, stdout, exit_code, h_vars, a_vars>>

\* lines 127-130: the returned result is printed and the process ends with code 0
VerifyPrint ==
    /\ v_pc = "print"
    /\ stdout' = Append(stdout, result)
    /\ exit_code' = 0
    /\ v_pc' = "exit"
    /\ UNCHANGED <<sys_argv, fs, result, steps, h_vars, a_vars>>

VerifyNext ==
    \/ VerifyMain
    \/ VerifyExists
    \/ VerifySize
    \/ VerifyMagic
    \/ VerifyReadTable
    \/ VerifyCompare
    \/ VerifySample
    \/ VerifyPrint

SpecVerify == VerifyInit /\ [][VerifyNext]_vars

-----------------------------------------------------------------------------
(* C1, C2, C4, C5, C6, C7 *)

Ran(step) == \E k \in 1..Len(steps) : steps[k] = step

\* verify_parquet has returned its result, or the process has ended
Returned == v_pc \in {"print", "exit"}

\* the comparison with the expected data is over
Compared == v_pc \in {"sample", "print", "exit"} /\ Ran("json.loads")

\* the file has its 8 bytes and both magic markers
HasBothMagics(c) ==
    /\ Len(c) >= 8
    /\ \A k \in 1..4 : c[k] = PAR1[k] /\ c[Len(c) - 4 + k] = PAR1[k]

\* C1: pq.read_table is reached only for a file of at least 8 bytes whose first and
\* last 4 bytes are PAR1, the size being checked before the magic; for any other
\* existing file the one result emitted has success false, an error (the magic
\* one when the size is right), row_count 0, no columns and data_matches null
C1_MagicGate ==
    /\ Ran("read_table") => HasBothMagics(fs.content)
    /\ \A k \in 1..Len(steps) :
          steps[k] = "magic" => \E m \in 1..(k - 1) : steps[m] = "getsize"
    /\ (v_pc = "exit" /\ sys_argv.has_path /\ fs.exists /\ ~HasBothMagics(fs.content)) =>
          /\ ~Ran("read_table")
          /\ Len(stdout) = 1
          /\ stdout[1].success = FALSE
          /\ stdout[1].error # "None"
          /\ Len(fs.content) >= 8 =>
                stdout[1].error = "Not a Parquet file. Missing PAR1 magic bytes."
          /\ stdout[1].row_count = 0
          /\ stdout[1].columns = <<>>
          /\ stdout[1].data_matches = "None"

\* a run that ended on a file whose last byte alone is damaged
C1_Witness ==
    /\ v_pc = "exit"
    /\ Len(fs.content) >= 8
    /\ SubSeq(fs.content, 1, 4) = PAR1
    /\ SubSeq(fs.content, Len(fs.content) - 3, Len(fs.content)) = <<80, 65, 82, 88>>
    /\ Len(stdout) = 1

C4_SampleAlways ==
    (Returned /\ result.success) =>
        /\ ~result.data_sample.is_none
        /\ result.data_sample.rows =
              SubSeq(fs.table.df.rows, 1, Min(5, result.row_count))

\* C5: expected data with the file's columns and the file's rows in another order
\* gives data_matches true
C5_OrderInsensitive ==
    (/\ Returned /\ result.success
     /\ sys_argv.expected_data.kind = "records"
     /\ Elements(sys_argv.expected_data.columns) = Elements(fs.table.df.columns)
     /\ sys_argv.expected_data.rows # fs.table.df.rows
     /\ sys_argv.expected_data.rows \in RowOrders(fs.table.df.rows))
        => result.data_matches = "True"

\* the column names of the expected records
ExpectedColumns == Elements(sys_argv.expected_data.columns)

RowLevelSteps == {"reorder", "astype", "sort_values", "equals"}

\* C6: expected columns that differ as a set from the file's give data_matches
\* false with the column-mismatch error and no row-level step; equal sets, in any
\* order, pass the check and the row comparison proceeds
C6_SchemaFailFast ==
    (Compared /\ sys_argv.expected_data.kind = "records") =>
        IF ExpectedColumns # Elements(fs.table.df.columns)
        THEN /\ result.data_matches = "False"
             /\ result.error = "Column mismatch"
             /\ Elements(steps) \cap RowLevelSteps = {}
        ELSE /\ Ran("reorder")
             /\ result.error # "Column mismatch"

\* a finished run whose expected data had one column too many
C6_Witness ==
    /\ v_pc = "exit"
    /\ Ran("columns")
    /\ "extra" \in ExpectedColumns
    /\ Len(fs.table.df.rows) = 2
    /\ result.data_matches = "False"

\* C7: a failure while comparing leaves success true with the file's row_count and
\* columns, sets data_matches false with an error, and the result is returned and
\* printed as any other
C7_ComparisonErrorContained ==
    /\ (Compared /\ sys_argv.expected_data.kind = "malformed") => Ran("except")
    /\ Ran("except") =>
          /\ v_pc \in {"sample", "print", "exit"}
          /\ result.success
          /\ result.row_count = Len(fs.table.df.rows)
          /\ result.columns = fs.table.df.columns
          /\ result.data_matches = "False"
          /\ result.error = "Error comparing data"
          /\ v_pc = "exit" => exit_code = 0 /\ stdout = <<result>>

\* a finished run in which sorting the expected rows raised
C7_Witness ==
    /\ v_pc = "exit"
    /\ Ran("sort_values") /\ Ran("except")
    /\ stdout = <<result>>

=============================================================================
